---- MODULE Spec2Model ----
(***************************************************************************)
(* A model of supply_chain_sim: the demand generator and the process-wide  *)
(* numpy random stream it draws from (demand.py), the Monte Carlo          *)
(* simulation (simulation.py) and the supply chain network (network.py).   *)
(*                                                                         *)
(* Floats are modelled by exact rationals <<n, d>> (d > 0, lowest terms)   *)
(* where the code divides, and by integers elsewhere; the inputs are       *)
(* chosen so that the float arithmetic of the code is exact on them.       *)
(***************************************************************************)
EXTENDS Integers, Sequences, FiniteSets, TLC

VARIABLES
    rng,          \* numpy's global RandomState: [seed, pos], pos = normals drawn since seeding
    gen,          \* the DemandGenerator objects: gen[g] = None or Some([mean, std_dev, seed]);
                  \* seed is the constructor's argument, which the object does not keep
    calls,        \* calls[g]: what each generate_daily_demand call made on g returned, in order
    sim,          \* the MonteCarloSimulation object: None or Some([demand_generator, iterations])
    nodes,        \* SupplyChainNetwork.nodes: nodes[id] = None or Some(node_type of the node held)
    graph,        \* SupplyChainNetwork.graph: [nodes, edges]; nodes[id] = None or Some(node_type),
                  \* edges = the edges [u, v, lead_time, capacity] in the order first added
    disruptions,  \* simulate_disruption calls that passed validation so far
    inventory_level,  \* SupplyChainNode.inventory_level of the node studied on its own
    pending_orders,   \* SupplyChainNode.pending_orders: the (quantity, arrival_time) pairs, in order
    placed,       \* the orders place_order has accepted on that node so far, in order
    ret           \* the last call: its name, arguments, outcome and returned value

vars == <<rng, gen, calls, sim, nodes, graph, disruptions,
         inventory_level, pending_orders, placed, ret>>

\* Python's Optional[T]: None is the empty tuple, a present value x is <<x>>.
None == <<>>
Some(x) == <<x>>
Opt(S) == {None} \cup {Some(x) : x \in S}

\* A float nan, kept apart from every rational <<n, d>> with d > 0.
NaN == <<0, 0>>

(*************************** bounds of the model ***************************)
MaxStream == 34        \* normals drawn from one seeding of the stream
MaxCalls == 2          \* generate_daily_demand calls recorded per generator
MaxSimStream == 6      \* normals drawn from one seeding while a simulation is studied
MaxIterations == 2     \* largest `iterations` of a simulation
MaxDisruptions == 1    \* simulate_disruption calls that pass validation
MaxOrders == 3         \* orders place_order accepts on the node studied

Generators == {1, 2}
Seeds == {1, 2}
Means == {-1, 2}
StdDevs == {-1, 0, 1}
DaysArgs == {-1, 0, 1, 2}
CoverageArgs == {-1, 0, 2}
LeadTimeArgs == {-1, 0, 1, 2}
LeadTimeLists == {<<>>, <<1>>, <<-1>>, <<1, 2>>, <<2, 0>>, <<2, 2>>}
SimCoverageArgs == {0, 2}
ConfidenceLevels == {<<95, 100>>, <<99, 100>>}
Histories == {<<>>, <<1, 2>>, <<0, 3, 1>>}

NodeIds == {"S1", "DC1", "R1"}
NodeObjects ==
    {[node_id |-> "S1", node_type |-> "supplier"],
     [node_id |-> "DC1", node_type |-> "distribution_center"],
     [node_id |-> "DC1", node_type |-> "warehouse"],
     [node_id |-> "R1", node_type |-> "retailer"]}
DisruptionNodes == {n \in NodeObjects : n.node_type # "warehouse"}
LeadTimeValues == {-1, 0, 1, 3}
CapacityValues == {<<8, 1>>}
\* The ordered pairs add_edge is called on: where lead times are studied, a
\* chain with a direct link beside it and one link back; where capacities
\* are, an edge into DC1, a self-loop on it and an edge out of it.
PathPairs == {<<"S1", "DC1">>, <<"DC1", "R1">>, <<"S1", "R1">>, <<"R1", "DC1">>}
DisruptionPairs == {<<"S1", "DC1">>, <<"DC1", "DC1">>, <<"DC1", "R1">>}
DisruptionLeadTimes == {0, 1}
\* Where the lasting effect of a disruption is studied: two nodes, the edges
\* between them, and capacities of either sign (add_edge accepts any).
CapacityNodeIds == {"S1", "DC1"}
CapacityNodes == {n \in DisruptionNodes : n.node_id \in CapacityNodeIds}
CapacityPairs == {<<"S1", "DC1">>, <<"DC1", "S1">>}
SignedCapacities == {<<8, 1>>, <<-8, 1>>}
Reductions == {<<-1, 2>>, <<0, 1>>, <<1, 2>>, <<1, 1>>, <<3, 2>>}
Durations == {1, 5}
Quantities == {-1, 0, 1, 2}
ArrivalTimes == {1, 2}
CurrentTimes == {0, 1, 2}

(***************************** exact rationals *****************************)
RECURSIVE GCD(_, _)
GCD(a, b) == IF b = 0 THEN a ELSE GCD(b, a % b)

Abs(x) == IF x < 0 THEN -x ELSE x

\* n/d in lowest terms, d > 0
Rat(n, d) ==
    LET g == GCD(Abs(n), d)
    IN  IF n = 0 THEN <<0, 1>> ELSE <<n \div g, d \div g>>

RMulInt(c, x) == IF x = NaN THEN NaN ELSE Rat(c * x[1], x[2])
RInt(n) == <<n, 1>>
RMul(x, y) == Rat(x[1] * y[1], x[2] * y[2])
ROneMinus(x) == Rat(x[2] - x[1], x[2])
RLeq(x, y) == x[1] * y[2] <= y[1] * x[2]
RLess(x, y) == x[1] * y[2] < y[1] * x[2]

\* Series.mean(): the sum of the values over their number; nan when a value is nan
RAdd(x, y) == IF x = NaN \/ y = NaN THEN NaN ELSE Rat(x[1] * y[2] + y[1] * x[2], x[2] * y[2])
RDivInt(x, n) == IF x = NaN \/ n = 0 THEN NaN ELSE Rat(x[1], x[2] * n)

RECURSIVE Sum(_)
Sum(s) == IF s = <<>> THEN 0 ELSE Head(s) + Sum(Tail(s))

\* np.mean: the mean of an empty array is nan (with a RuntimeWarning)
mean(arr) == IF Len(arr) = 0 THEN NaN ELSE Rat(Sum(arr), Len(arr))

(************************ numpy's global random stream *********************)
\* The i-th standard normal variate of the stream seeded with `seed`: a fixed
\* function of (seed, i), as the Mersenne Twister's output is.
Gauss(seed, i) == ((seed * seed + 3 * i + seed * i) % 5) - 2

\* np.random.seed(seed)
np_random_seed(seed) == [seed |-> seed, pos |-> 0]

\* np.random.normal(loc, scale, size) on the stream state r: loc + scale * z
\* for the next `size` variates; ValueError for scale < 0 or size < 0.
np_random_normal(loc, scale, size, r) ==
    IF scale < 0 \/ size < 0
    THEN [outcome |-> "ValueError", value |-> None, rng |-> r]
    ELSE [outcome |-> "ok",
          value |-> [k \in 1..size |-> loc + scale * Gauss(r.seed, r.pos + k)],
          rng |-> [r EXCEPT !.pos = @ + size]]

\* np.maximum(arr, 0)
np_maximum0(arr) == [k \in 1..Len(arr) |-> IF arr[k] < 0 THEN 0 ELSE arr[k]]

(***************************** DemandGenerator *****************************)
generate_daily_demand(g, days, r) ==
    LET demand == np_random_normal(gen[g][1].mean, gen[g][1].std_dev, days, r)
    IN  IF demand.outcome # "ok" THEN demand
        ELSE [demand EXCEPT !.value = np_maximum0(demand.value)]

DefaultDays == 30

\* `days or 30`: the default stands in for a days of None and for a days of 0
DaysOrDefault(days) == IF days = None \/ days[1] = 0 THEN DefaultDays ELSE days[1]

calculate_safety_stock(g, coverage_days, demand_history, days, r) ==
    LET drawn == IF demand_history = None
                 THEN generate_daily_demand(g, DaysOrDefault(days), r)
                 ELSE [outcome |-> "ok", value |-> demand_history[1], rng |-> r]
    IN  IF drawn.outcome # "ok" THEN drawn
        ELSE [outcome |-> "ok",
              value |-> RMulInt(coverage_days, mean(drawn.value)),
              rng |-> drawn.rng]

\* The normals a call would draw from the stream, for the bound MaxStream.
Room(r, n) == r.pos + (IF n < 0 THEN 0 ELSE n) <= MaxStream

DemandGenerator_init(g, m, sd, seed) ==
    /\ gen[g] = None
    /\ gen' = [gen EXCEPT ![g] = Some([mean |-> m, std_dev |-> sd, seed |-> seed])]
    /\ rng' = IF seed # None THEN np_random_seed(seed[1]) ELSE rng
    /\ ret' = [op |-> "DemandGenerator", g |-> g, seed |-> seed, outcome |-> "ok"]
    /\ UNCHANGED <<calls, sim, nodes, graph, disruptions, inventory_level, pending_orders, placed>>

GenerateDailyDemand(g, days) ==
    /\ gen[g] # None
    /\ Len(calls[g]) < MaxCalls
    /\ Room(rng, days)
    /\ LET out == generate_daily_demand(g, days, rng)
       IN  /\ rng' = out.rng
           /\ calls' = IF out.outcome = "ok"
                       THEN [calls EXCEPT ![g] = Append(@, [days |-> days, value |-> out.value])]
                       ELSE calls
           /\ ret' = [op |-> "generate_daily_demand", g |-> g, days |-> days,
                      outcome |-> out.outcome, value |-> out.value, rng0 |-> rng]
    /\ UNCHANGED <<gen, sim, nodes, graph, disruptions, inventory_level, pending_orders, placed>>

CalculateSafetyStock(g, coverage_days, demand_history, days) ==
    /\ gen[g] # None
    /\ demand_history = None => Room(rng, DaysOrDefault(days))
    /\ LET out == calculate_safety_stock(g, coverage_days, demand_history, days, rng)
       IN  /\ rng' = out.rng
           /\ ret' = [op |-> "calculate_safety_stock", g |-> g,
                      coverage_days |-> coverage_days,
                      demand_history |-> demand_history, days |-> days,
                      outcome |-> out.outcome, value |-> out.value, rng0 |-> rng]
    /\ UNCHANGED <<gen, calls, sim, nodes, graph, disruptions, inventory_level, pending_orders, placed>>

(*************************** MonteCarloSimulation **************************)
\* IterationRows with the first lead time skipped (for lead_time in lead_times[1:]).
IterationRowsSkipFirst(g, it, demand, coverage_days, lead_times, r) ==
    [j \in 1..(Len(lead_times) - 1) |->
        [lead_time |-> lead_times[j + 1],
         safety_stock |-> calculate_safety_stock(
             g, coverage_days + lead_times[j + 1], Some(demand), None, r).value,
         iteration |-> it]]

\* IterationRows with the demand drawn again for every lead time.
IterationRowsResample(g, it, demand, coverage_days, lead_times, r) ==
    [j \in 1..Len(lead_times) |->
        [lead_time |-> lead_times[j],
         safety_stock |-> calculate_safety_stock(
             g, coverage_days + lead_times[j], None, Some(Len(demand)),
             [r EXCEPT !.pos = @ + (j - 1) * Len(demand)]).value,
         iteration |-> it]]

\* IterationRows with the stock computed for coverage_days alone.
IterationRowsIgnoreLeadTime(g, it, demand, coverage_days, lead_times, r) ==
    [j \in 1..Len(lead_times) |->
        [lead_time |-> lead_times[j],
         safety_stock |-> calculate_safety_stock(
             g, coverage_days, Some(demand), None, r).value,
         iteration |-> it]]

\* The rows one iteration appends: one per entry of lead_times, all computed
\* from the demand drawn for this iteration.
IterationRows(g, it, demand, coverage_days, lead_times, r) ==
    [j \in 1..Len(lead_times) |->
        [lead_time |-> lead_times[j],
         safety_stock |-> calculate_safety_stock(
             g, coverage_days + lead_times[j], Some(demand), None, r).value,
         iteration |-> it]]

\* for _ in range(self.iterations): ... from iteration `it` on
RECURSIVE SimulateFrom(_, _, _, _, _, _, _, _)
SimulateFrom(g, iterations, it, coverage_days, simulation_days, lead_times, r, results) ==
    IF it >= iterations
    THEN [outcome |-> "ok", value |-> results, rng |-> r]
    ELSE LET demand == generate_daily_demand(g, simulation_days, r)
         IN  IF demand.outcome # "ok"
             THEN [outcome |-> demand.outcome, value |-> None, rng |-> r]
             ELSE SimulateFrom(g, iterations, it + 1, coverage_days, simulation_days,
                      lead_times, demand.rng,
                      results \o IterationRows(g, it, demand.value, coverage_days,
                                               lead_times, demand.rng))

simulate_safety_stock(coverage_days, simulation_days, lead_times, r) ==
    SimulateFrom(sim[1].demand_generator, sim[1].iterations, 0,
                 coverage_days, simulation_days, lead_times, r, <<>>)

MonteCarloSimulation_init(g, iterations, seed) ==
    /\ sim = None
    /\ gen[g] # None
    /\ IF iterations <= 0
       THEN /\ ret' = [op |-> "MonteCarloSimulation", iterations |-> iterations,
                       seed |-> seed, outcome |-> "ValueError"]
            /\ UNCHANGED <<sim, rng>>
       ELSE /\ sim' = Some([demand_generator |-> g, iterations |-> iterations])
            /\ rng' = IF seed # None THEN np_random_seed(seed[1]) ELSE rng
            /\ ret' = [op |-> "MonteCarloSimulation", iterations |-> iterations,
                       seed |-> seed, outcome |-> "ok"]
    /\ UNCHANGED <<gen, calls, nodes, graph, disruptions, inventory_level, pending_orders, placed>>

SimulateSafetyStock(coverage_days, simulation_days, lead_times) ==
    /\ sim # None
    /\ rng.pos + sim[1].iterations * (IF simulation_days < 0 THEN 0 ELSE simulation_days)
           <= MaxSimStream
    /\ LET out == simulate_safety_stock(coverage_days, simulation_days, lead_times, rng)
       IN  /\ rng' = out.rng
           /\ ret' = [op |-> "simulate_safety_stock", coverage_days |-> coverage_days,
                      simulation_days |-> simulation_days, lead_times |-> lead_times,
                      outcome |-> out.outcome, value |-> out.value, rng0 |-> rng]
    /\ UNCHANGED <<gen, calls, sim, nodes, graph, disruptions, inventory_level, pending_orders, placed>>

(**************** the statistics of a frame of result rows *****************)
\* A frame is the sequence of rows simulate_safety_stock returned; the frame
\* of no rows, pd.DataFrame([]), has no columns.
RNeg(x) == IF x = NaN THEN NaN ELSE <<-x[1], x[2]>>
RSub(x, y) == RAdd(x, RNeg(y))

\* np.sqrt / Series.std: the square root of n/d is kept as the surd <<n, d, 2>>.
Sqrt(x) == IF x = NaN THEN NaN ELSE <<x[1], x[2], 2>>

\* simulation_results[simulation_results['lead_time'] == lead_time]['safety_stock']
RECURSIVE GroupValues(_, _)
GroupValues(rows, lt) ==
    IF rows = <<>> THEN <<>>
    ELSE IF Head(rows).lead_time = lt
         THEN <<Head(rows).safety_stock>> \o GroupValues(Tail(rows), lt)
         ELSE GroupValues(Tail(rows), lt)

\* simulation_results['lead_time'].unique()
UniqueLeadTimes(rows) == {rows[k].lead_time : k \in 1..Len(rows)}

\* pandas leaves the nan values out of every statistic (skipna)
DropNa(values) == SelectSeq(values, LAMBDA x : x # NaN)

RECURSIVE RSum(_)
RSum(values) == IF values = <<>> THEN <<0, 1>> ELSE RAdd(Head(values), RSum(Tail(values)))

series_mean(values) ==
    LET v == DropNa(values)
    IN  IF v = <<>> THEN NaN ELSE RDivInt(RSum(v), Len(v))

\* Series.var() with ddof = 1: nan for fewer than two values
series_var(values) ==
    LET v == DropNa(values)
        m == series_mean(values)
    IN  IF Len(v) < 2 THEN NaN
        ELSE RDivInt(RSum([k \in 1..Len(v) |-> RMul(RSub(v[k], m), RSub(v[k], m))]),
                     Len(v) - 1)

series_std(values) == Sqrt(series_var(values))

RECURSIVE InsertSorted(_, _)
InsertSorted(x, sorted) ==
    IF sorted = <<>> THEN <<x>>
    ELSE IF RLeq(x, Head(sorted)) THEN <<x>> \o sorted
         ELSE <<Head(sorted)>> \o InsertSorted(x, Tail(sorted))

RECURSIVE Sorted(_)
Sorted(values) ==
    IF values = <<>> THEN <<>> ELSE InsertSorted(Head(values), Sorted(Tail(values)))

series_min(values) ==
    LET v == Sorted(DropNa(values)) IN IF v = <<>> THEN NaN ELSE v[1]

series_max(values) ==
    LET v == Sorted(DropNa(values)) IN IF v = <<>> THEN NaN ELSE v[Len(v)]

\* Series.quantile(q), linear interpolation between the two nearest ranks
series_quantile(values, q) ==
    LET v == Sorted(DropNa(values))
        num == (Len(v) - 1) * q[1]
        lo == num \div q[2]
        frac == Rat(num % q[2], q[2])
    IN  IF v = <<>> THEN NaN
        ELSE IF frac = <<0, 1>> THEN v[lo + 1]
        ELSE RAdd(v[lo + 1], RMul(frac, RSub(v[lo + 2], v[lo + 1])))

series_median(values) == series_quantile(values, <<1, 2>>)

\* The frame without columns has no 'lead_time': KeyError.
analyze_results(simulation_results) ==
    IF simulation_results = <<>> THEN [outcome |-> "KeyError", value |-> None]
    ELSE [outcome |-> "ok",
          value |-> [lead_time \in UniqueLeadTimes(simulation_results) |->
              LET lt_data == GroupValues(simulation_results, lead_time)
              IN  [mean |-> series_mean(lt_data),
                   std |-> series_std(lt_data),
                   min |-> series_min(lt_data),
                   max |-> series_max(lt_data),
                   median |-> series_median(lt_data),
                   percentile_95 |-> series_quantile(lt_data, <<19, 20>>)]]]

\* The multiplier 1.96 of the code, squared: (49/25)^2.
Z95Squared == <<2401, 625>>

\* mean - margin and mean + margin for margin = sqrt(msq): the value
\* <<mean, sign, sqrt(msq)>> stands for mean + sign * sqrt(msq).
Bound(m, sign, margin) == IF m = NaN \/ margin = NaN THEN NaN ELSE <<m, sign, margin>>

\* std_error = std / sqrt(len) = sqrt(var / len); margin = std_error * 1.96
Margin(lt_data) ==
    LET var == series_var(lt_data)
    IN  IF var = NaN THEN NaN ELSE Sqrt(RMul(RDivInt(var, Len(lt_data)), Z95Squared))

\* calculate_confidence_intervals with the margin left out of the upper bound.
calculate_confidence_intervals_no_margin(simulation_results, confidence_level) ==
    IF simulation_results = <<>> THEN [outcome |-> "KeyError", value |-> None]
    ELSE [outcome |-> "ok",
          value |-> [lead_time \in UniqueLeadTimes(simulation_results) |->
              LET lt_data == GroupValues(simulation_results, lead_time)
              IN  <<Bound(series_mean(lt_data), -1, Margin(lt_data)),
                    Bound(series_mean(lt_data), 1, Sqrt(<<0, 1>>))>>]]

\* confidence_level is not read: the multiplier is 1.96 whatever it is.
calculate_confidence_intervals(simulation_results, confidence_level) ==
    IF simulation_results = <<>> THEN [outcome |-> "KeyError", value |-> None]
    ELSE [outcome |-> "ok",
          value |-> [lead_time \in UniqueLeadTimes(simulation_results) |->
              LET lt_data == GroupValues(simulation_results, lead_time)
              IN  <<Bound(series_mean(lt_data), -1, Margin(lt_data)),
                    Bound(series_mean(lt_data), 1, Margin(lt_data))>>]]

\* The frame the caller holds: the one the last simulate_safety_stock call
\* returned, passed on from one analysis call to the next.
HasFrame ==
    \/ ret.op = "simulate_safety_stock" /\ ret.outcome = "ok"
    \/ ret.op \in {"analyze_results", "calculate_confidence_intervals"}

Frame == IF ret.op = "simulate_safety_stock" THEN ret.value ELSE ret.simulation_results

AnalyzeResults ==
    /\ sim # None
    /\ HasFrame
    /\ LET out == analyze_results(Frame)
       IN  ret' = [op |-> "analyze_results", simulation_results |-> Frame,
                   outcome |-> out.outcome, value |-> out.value]
    /\ UNCHANGED <<rng, gen, calls, sim, nodes, graph, disruptions,
                   inventory_level, pending_orders, placed>>

CalculateConfidenceIntervals(confidence_level) ==
    /\ sim # None
    /\ HasFrame
    /\ LET out == calculate_confidence_intervals(Frame, confidence_level)
       IN  ret' = [op |-> "calculate_confidence_intervals", simulation_results |-> Frame,
                   confidence_level |-> confidence_level,
                   outcome |-> out.outcome, value |-> out.value]
    /\ UNCHANGED <<rng, gen, calls, sim, nodes, graph, disruptions,
                   inventory_level, pending_orders, placed>>

(**************************** SupplyChainNetwork ***************************)
\* The position of edge (u, v) in the edge list, 0 when the graph has no such edge.
EdgeIndex(edges, u, v) ==
    IF \E k \in 1..Len(edges) : edges[k].u = u /\ edges[k].v = v
    THEN CHOOSE k \in 1..Len(edges) : edges[k].u = u /\ edges[k].v = v
    ELSE 0

\* nx.DiGraph.add_node(id, node_type=...): a node already there keeps its
\* edges and has the attribute overwritten.
nx_add_node(G, id, node_type) == [G EXCEPT !.nodes[id] = Some(node_type)]

\* nx.DiGraph.add_edge(u, v, lead_time=..., capacity=...): adds missing end
\* nodes; an edge already there keeps its place and has its attributes updated.
nx_add_edge(G, u, v, lead_time, capacity) ==
    LET k == EdgeIndex(G.edges, u, v)
        e == [u |-> u, v |-> v, lead_time |-> lead_time, capacity |-> capacity]
        ns == [id \in NodeIds |->
                 IF id \in {u, v} /\ G.nodes[id] = None THEN Some("") ELSE G.nodes[id]]
    IN  [nodes |-> ns,
         edges |-> IF k = 0 THEN Append(G.edges, e) ELSE [G.edges EXCEPT ![k] = e]]

\* add_node without the duplicate test: the entry and the attribute are overwritten.
add_node_overwrite(node) ==
    [outcome |-> "ok", error |-> "",
     nodes |-> [nodes EXCEPT ![node.node_id] = Some(node.node_type)],
     graph |-> nx_add_node(graph, node.node_id, node.node_type)]

add_node(node) ==
    IF nodes[node.node_id] # None
    THEN [outcome |-> "ValueError", error |-> "Node already exists",
          nodes |-> nodes, graph |-> graph]
    ELSE [outcome |-> "ok", error |-> "",
          nodes |-> [nodes EXCEPT ![node.node_id] = Some(node.node_type)],
          graph |-> nx_add_node(graph, node.node_id, node.node_type)]

\* add_edge without the test of the target: networkx adds the missing node.
add_edge_unchecked_target(source_id, target_id, lead_time, capacity) ==
    IF nodes[source_id] = None
    THEN [outcome |-> "ValueError", error |-> "Source node does not exist", graph |-> graph]
    ELSE IF lead_time <= 0
    THEN [outcome |-> "ValueError", error |-> "Lead time must be positive", graph |-> graph]
    ELSE [outcome |-> "ok", error |-> "",
          graph |-> nx_add_edge(graph, source_id, target_id, lead_time, capacity)]

\* add_edge with the lead time tested after the edge is stored.
add_edge_late_check(source_id, target_id, lead_time, capacity) ==
    IF nodes[source_id] = None
    THEN [outcome |-> "ValueError", error |-> "Source node does not exist", graph |-> graph]
    ELSE IF nodes[target_id] = None
    THEN [outcome |-> "ValueError", error |-> "Target node does not exist", graph |-> graph]
    ELSE IF lead_time <= 0
    THEN [outcome |-> "ValueError", error |-> "Lead time must be positive",
          graph |-> nx_add_edge(graph, source_id, target_id, lead_time, capacity)]
    ELSE [outcome |-> "ok", error |-> "",
          graph |-> nx_add_edge(graph, source_id, target_id, lead_time, capacity)]

add_edge(source_id, target_id, lead_time, capacity) ==
    IF nodes[source_id] = None
    THEN [outcome |-> "ValueError", error |-> "Source node does not exist", graph |-> graph]
    ELSE IF nodes[target_id] = None
    THEN [outcome |-> "ValueError", error |-> "Target node does not exist", graph |-> graph]
    ELSE IF lead_time <= 0
    THEN [outcome |-> "ValueError", error |-> "Lead time must be positive", graph |-> graph]
    ELSE [outcome |-> "ok", error |-> "",
          graph |-> nx_add_edge(graph, source_id, target_id, lead_time, capacity)]

\* The simple directed paths of the graph, as node sequences.
IsPath(G, p) ==
    /\ \A i \in 1..Len(p) : G.nodes[p[i]] # None
    /\ \A i, j \in 1..Len(p) : i # j => p[i] # p[j]
    /\ \A i \in 1..(Len(p) - 1) : EdgeIndex(G.edges, p[i], p[i + 1]) # 0

PathsBetween(G, s, t) ==
    {p \in UNION {[1..n -> NodeIds] : n \in 1..Cardinality(NodeIds)} :
        p[1] = s /\ p[Len(p)] = t /\ IsPath(G, p)}

\* for i in range(len(path) - 1): total_lead_time += graph[path[i]][path[i+1]]['lead_time']
RECURSIVE PathLeadTime(_, _)
PathLeadTime(G, p) ==
    IF Len(p) <= 1 THEN 0
    ELSE G.edges[EdgeIndex(G.edges, p[1], p[2])].lead_time + PathLeadTime(G, Tail(p))

\* A shortest path by weight='lead_time' instead of by edge count.
nx_shortest_paths_weighted(G, s, t) ==
    LET ps == PathsBetween(G, s, t)
    IN  {p \in ps : \A q \in ps : PathLeadTime(G, p) <= PathLeadTime(G, q)}

\* nx.shortest_path(G, source, target) without a weight: a path with the
\* fewest edges. Which of several such paths networkx returns depends on its
\* search order; every one of them is allowed here.
nx_shortest_paths(G, s, t) ==
    LET ps == PathsBetween(G, s, t)
    IN  {p \in ps : \A q \in ps : Len(p) <= Len(q)}

\* get_path_lead_time with NetworkXNoPath swallowed: 0.0 is returned.
get_path_lead_time_swallow(source_id, target_id) ==
    IF graph.nodes[source_id] = None \/ graph.nodes[target_id] = None
    THEN {[outcome |-> "NodeNotFound", value |-> None]}
    ELSE LET paths == nx_shortest_paths(graph, source_id, target_id)
         IN  IF paths = {}
             THEN {[outcome |-> "ok", value |-> Some(0)]}
             ELSE {[outcome |-> "ok", value |-> Some(PathLeadTime(graph, p))] : p \in paths}

\* The outcomes of get_path_lead_time: nx.NodeNotFound (not caught by the
\* method) when an end is no node of the graph, nx.NetworkXNoPath when the
\* target is not reachable, else the lead time summed along a shortest path.
get_path_lead_time(source_id, target_id) ==
    IF graph.nodes[source_id] = None \/ graph.nodes[target_id] = None
    THEN {[outcome |-> "NodeNotFound", value |-> None]}
    ELSE LET paths == nx_shortest_paths(graph, source_id, target_id)
         IN  IF paths = {}
             THEN {[outcome |-> "NetworkXNoPath", value |-> None]}
             ELSE {[outcome |-> "ok", value |-> Some(PathLeadTime(graph, p))] : p \in paths}

\* list(graph.in_edges(node_id)) + list(graph.out_edges(node_id)), as positions
\* in the edge list: a self-loop is in both lists.
in_edges(edges, node_id) ==
    LET F[i \in 0..Len(edges)] ==
            IF i = 0 THEN <<>>
            ELSE IF edges[i].v = node_id THEN Append(F[i - 1], i) ELSE F[i - 1]
    IN  F[Len(edges)]

out_edges(edges, node_id) ==
    LET F[i \in 0..Len(edges)] ==
            IF i = 0 THEN <<>>
            ELSE IF edges[i].u = node_id THEN Append(F[i - 1], i) ELSE F[i - 1]
    IN  F[Len(edges)]

IncidentEdges(G, node_id) ==
    in_edges(G.edges, node_id) \o out_edges(G.edges, node_id)

\* for edge in edges: if 'capacity' in data: data['capacity'] *= (1 - capacity_reduction)
\* add_edge always stores the key, so the test always passes; None *= float
\* raises TypeError and leaves the edges derated so far as they are.
RECURSIVE DerateEdges(_, _, _)
DerateEdges(edges, todo, capacity_reduction) ==
    IF todo = <<>> THEN [outcome |-> "ok", edges |-> edges]
    ELSE LET k == Head(todo)
         IN  IF edges[k].capacity = None
             THEN [outcome |-> "TypeError", edges |-> edges]
             ELSE DerateEdges(
                      [edges EXCEPT ![k].capacity =
                           Some(RMul(@[1], ROneMinus(capacity_reduction)))],
                      Tail(todo), capacity_reduction)

\* simulate_disruption with the range of capacity_reduction tested after the loop.
simulate_disruption_late_check(node_id, duration, capacity_reduction) ==
    IF nodes[node_id] = None
    THEN [outcome |-> "ValueError", error |-> "Node does not exist", graph |-> graph]
    ELSE LET out == DerateEdges(graph.edges, IncidentEdges(graph, node_id), capacity_reduction)
         IN  IF ~(RLeq(<<0, 1>>, capacity_reduction) /\ RLeq(capacity_reduction, <<1, 1>>))
             THEN [outcome |-> "ValueError",
                   error |-> "Capacity reduction must be between 0 and 1",
                   graph |-> [graph EXCEPT !.edges = out.edges]]
             ELSE [outcome |-> out.outcome, error |-> "",
                   graph |-> [graph EXCEPT !.edges = out.edges]]

\* simulate_disruption that derates only for a duration above 1.
simulate_disruption_by_duration(node_id, duration, capacity_reduction) ==
    IF nodes[node_id] = None
    THEN [outcome |-> "ValueError", error |-> "Node does not exist", graph |-> graph]
    ELSE IF ~(RLeq(<<0, 1>>, capacity_reduction) /\ RLeq(capacity_reduction, <<1, 1>>))
    THEN [outcome |-> "ValueError", error |-> "Capacity reduction must be between 0 and 1",
          graph |-> graph]
    ELSE LET out == DerateEdges(graph.edges, IncidentEdges(graph, node_id), capacity_reduction)
         IN  [outcome |-> out.outcome, error |-> "",
              graph |-> IF duration > 1 THEN [graph EXCEPT !.edges = out.edges] ELSE graph]

simulate_disruption(node_id, duration, capacity_reduction) ==
    IF nodes[node_id] = None
    THEN [outcome |-> "ValueError", error |-> "Node does not exist", graph |-> graph]
    ELSE IF ~(RLeq(<<0, 1>>, capacity_reduction) /\ RLeq(capacity_reduction, <<1, 1>>))
    THEN [outcome |-> "ValueError", error |-> "Capacity reduction must be between 0 and 1",
          graph |-> graph]
    ELSE LET out == DerateEdges(graph.edges, IncidentEdges(graph, node_id), capacity_reduction)
         IN  [outcome |-> out.outcome, error |-> "",
              graph |-> [graph EXCEPT !.edges = out.edges]]

AddNode(node) ==
    /\ LET out == add_node(node)
       IN  /\ nodes' = out.nodes
           /\ graph' = out.graph
           /\ ret' = [op |-> "add_node", node |-> node,
                      outcome |-> out.outcome, error |-> out.error]
    /\ UNCHANGED <<rng, gen, calls, sim, disruptions, inventory_level, pending_orders, placed>>

AddEdge(source_id, target_id, lead_time, capacity) ==
    /\ LET out == add_edge(source_id, target_id, lead_time, capacity)
       IN  /\ graph' = out.graph
           /\ ret' = [op |-> "add_edge", source_id |-> source_id, target_id |-> target_id,
                      lead_time |-> lead_time, capacity |-> capacity,
                      outcome |-> out.outcome, error |-> out.error]
    /\ UNCHANGED <<rng, gen, calls, sim, nodes, disruptions, inventory_level, pending_orders, placed>>

GetPathLeadTime(source_id, target_id) ==
    /\ \E out \in get_path_lead_time(source_id, target_id) :
           ret' = [op |-> "get_path_lead_time", source_id |-> source_id,
                   target_id |-> target_id, outcome |-> out.outcome, value |-> out.value]
    /\ UNCHANGED <<rng, gen, calls, sim, nodes, graph, disruptions, inventory_level, pending_orders, placed>>

SimulateDisruption(node_id, duration, capacity_reduction) ==
    /\ LET out == simulate_disruption(node_id, duration, capacity_reduction)
       IN  /\ out.outcome # "ValueError" => disruptions < MaxDisruptions
           /\ disruptions' = IF out.outcome # "ValueError" THEN disruptions + 1 ELSE disruptions
           /\ graph' = out.graph
           /\ ret' = [op |-> "simulate_disruption", node_id |-> node_id,
                      duration |-> duration, capacity_reduction |-> capacity_reduction,
                      outcome |-> out.outcome, error |-> out.error]
    /\ UNCHANGED <<rng, gen, calls, sim, nodes, inventory_level, pending_orders, placed>>

(***************************** SupplyChainNode *****************************)
\* place_order with the test `quantity < 0`: an order of nothing is accepted.
place_order_allow_zero(quantity, arrival_time) ==
    IF quantity < 0
    THEN [outcome |-> "ValueError", pending_orders |-> pending_orders]
    ELSE [outcome |-> "ok",
          pending_orders |-> Append(pending_orders, <<quantity, arrival_time>>)]

place_order(quantity, arrival_time) ==
    IF quantity <= 0
    THEN [outcome |-> "ValueError", pending_orders |-> pending_orders]
    ELSE [outcome |-> "ok",
          pending_orders |-> Append(pending_orders, <<quantity, arrival_time>>)]

\* for quantity, arrival_time in self.pending_orders: ... from the k-th order on
RECURSIVE ReceiveFrom(_, _, _, _, _)
ReceiveFrom(k, current_time, received, level, remaining_orders) ==
    IF k > Len(pending_orders)
    THEN [value |-> received, inventory_level |-> level, pending_orders |-> remaining_orders]
    ELSE LET quantity == pending_orders[k][1]
             arrival_time == pending_orders[k][2]
         IN  IF arrival_time <= current_time
             THEN ReceiveFrom(k + 1, current_time, received + quantity, level + quantity,
                              remaining_orders)
             ELSE ReceiveFrom(k + 1, current_time, received, level,
                              Append(remaining_orders, <<quantity, arrival_time>>))

\* receive_orders with the test `arrival_time < current_time`.
receive_orders_strict(current_time) ==
    LET due == SelectSeq(pending_orders, LAMBDA o : o[2] < current_time)
        rest == SelectSeq(pending_orders, LAMBDA o : ~(o[2] < current_time))
        total == Sum([k \in 1..Len(due) |-> due[k][1]])
    IN  [value |-> total, inventory_level |-> inventory_level + total, pending_orders |-> rest]

\* receive_orders without `self.pending_orders = remaining_orders`.
receive_orders_keep_pending(current_time) ==
    [ReceiveFrom(1, current_time, 0, inventory_level, <<>>)
        EXCEPT !.pending_orders = pending_orders]

\* receive_orders without `self.inventory_level += quantity`.
receive_orders_uncredited(current_time) ==
    [ReceiveFrom(1, current_time, 0, inventory_level, <<>>)
        EXCEPT !.inventory_level = inventory_level]

receive_orders(current_time) == ReceiveFrom(1, current_time, 0, inventory_level, <<>>)

PlaceOrder(quantity, arrival_time) ==
    /\ LET out == place_order(quantity, arrival_time)
       IN  /\ out.outcome = "ok" => Len(placed) < MaxOrders
           /\ pending_orders' = out.pending_orders
           /\ placed' = IF out.outcome = "ok"
                        THEN Append(placed, <<quantity, arrival_time>>) ELSE placed
           /\ ret' = [op |-> "place_order", quantity |-> quantity,
                      arrival_time |-> arrival_time, outcome |-> out.outcome]
    /\ UNCHANGED <<rng, gen, calls, sim, nodes, graph, disruptions, inventory_level>>

ReceiveOrders(current_time) ==
    /\ LET out == receive_orders(current_time)
       IN  /\ inventory_level' = out.inventory_level
           /\ pending_orders' = out.pending_orders
           /\ ret' = [op |-> "receive_orders", current_time |-> current_time,
                      outcome |-> "ok", value |-> out.value]
    /\ UNCHANGED <<rng, gen, calls, sim, nodes, graph, disruptions, placed>>

(**************************** initial state ********************************)
\* The interpreter starts with the global stream seeded from OS entropy.
Init ==
    /\ rng \in [seed : Seeds \cup {0}, pos : {0}]
    /\ gen = [g \in Generators |-> None]
    /\ calls = [g \in Generators |-> <<>>]
    /\ sim = None
    /\ nodes = [id \in NodeIds |-> None]
    /\ graph = [nodes |-> [id \in NodeIds |-> None], edges |-> <<>>]
    /\ disruptions = 0
    /\ inventory_level = 0
    /\ pending_orders = <<>>
    /\ placed = <<>>
    /\ ret = [op |-> "start", outcome |-> "ok"]

\* Two generators and the demands drawn from them.
NextDemand ==
    \/ \E g \in Generators, m \in Means, sd \in StdDevs, seed \in Opt(Seeds) :
            DemandGenerator_init(g, m, sd, seed)
    \/ \E g \in Generators, days \in DaysArgs : GenerateDailyDemand(g, days)

SpecDemand == Init /\ [][NextDemand]_vars

\* One generator and the safety stock computed from it.
NextStock ==
    \/ \E m \in Means, sd \in StdDevs, seed \in Opt(Seeds) :
            DemandGenerator_init(1, m, sd, seed)
    \/ \E c \in CoverageArgs, h \in Opt(Histories), days \in Opt(DaysArgs) :
            CalculateSafetyStock(1, c, h, days)

SpecStock == Init /\ [][NextStock]_vars

\* One generator, one simulation driving it.
NextSim ==
    \/ \E m \in Means, sd \in StdDevs, seed \in Opt(Seeds) :
            DemandGenerator_init(1, m, sd, seed)
    \/ \E n \in 0..MaxIterations, seed \in Opt(Seeds) :
            MonteCarloSimulation_init(1, n, seed)
    \/ \E c \in SimCoverageArgs, days \in DaysArgs, lts \in LeadTimeLists :
            SimulateSafetyStock(c, days, lts)

SpecSim == Init /\ [][NextSim]_vars

\* One generator, one simulation, and the analysis of the frames it returns.
NextAnalysis ==
    \/ \E m \in Means, sd \in StdDevs \ {-1}, seed \in Opt(Seeds) :
            DemandGenerator_init(1, m, sd, seed)
    \/ \E n \in 1..MaxIterations : MonteCarloSimulation_init(1, n, None)
    \/ \E c \in SimCoverageArgs \ {0}, days \in DaysArgs \ {-1}, lts \in LeadTimeLists :
            SimulateSafetyStock(c, days, lts)
    \/ AnalyzeResults
    \/ \E cl \in ConfidenceLevels : CalculateConfidenceIntervals(cl)

SpecAnalysis == Init /\ [][NextAnalysis]_vars

\* The network specifications start from one state: no random draw is made.
InitNetwork == Init /\ rng.seed = 0

\* One network, its edges without capacity, built and queried for lead times.
NextNetwork ==
    \/ \E node \in NodeObjects : AddNode(node)
    \/ \E e \in PathPairs, lt \in LeadTimeValues : AddEdge(e[1], e[2], lt, None)
    \/ \E s \in NodeIds, t \in NodeIds : GetPathLeadTime(s, t)

SpecNetwork == InitNetwork /\ [][NextNetwork]_vars

\* One network, its edges with or without capacity, built, queried and disrupted.
NextDisruption ==
    \/ \E node \in DisruptionNodes : AddNode(node)
    \/ \E e \in DisruptionPairs, lt \in DisruptionLeadTimes, c \in Opt(CapacityValues) :
            AddEdge(e[1], e[2], lt, c)
    \/ \E s \in NodeIds, t \in NodeIds : GetPathLeadTime(s, t)
    \/ \E n \in NodeIds, d \in Durations, r \in Reductions : SimulateDisruption(n, d, r)

SpecDisruption == InitNetwork /\ [][NextDisruption]_vars

\* One node on its own: SupplyChainNode(node_id, node_type) starts with
\* inventory_level 0.0 and no pending order.
InitNode == Init /\ rng.seed = 0

NextNode ==
    \/ \E q \in Quantities, t \in ArrivalTimes : PlaceOrder(q, t)
    \/ \E t \in CurrentTimes : ReceiveOrders(t)

SpecNode == InitNode /\ [][NextNode]_vars

\* Two nodes and the edges between them, with capacities of either sign,
\* built, queried and disrupted.
NextCapacity ==
    \/ \E node \in CapacityNodes : AddNode(node)
    \/ \E e \in CapacityPairs, c \in Opt(SignedCapacities) : AddEdge(e[1], e[2], 1, c)
    \/ \E s \in CapacityNodeIds, t \in CapacityNodeIds : GetPathLeadTime(s, t)
    \/ \E n \in CapacityNodeIds, d \in Durations, r \in Reductions :
            SimulateDisruption(n, d, r)

SpecCapacity == InitNetwork /\ [][NextCapacity]_vars

\* Every operation of the package, on all the objects at once.
Next ==
    NextDemand \/ NextStock \/ NextSim \/ NextAnalysis \/ NextNetwork \/ NextDisruption
        \/ NextCapacity \/ NextNode

Spec == Init /\ [][Next]_vars

(***************************************************************************)
(*                              The claims                                 *)
(***************************************************************************)
SimReturned == ret.op = "simulate_safety_stock" /\ ret.outcome = "ok"

RowsOf(rows, it, lt) ==
    {k \in 1..Len(rows) : rows[k].iteration = it /\ rows[k].lead_time = lt}
Occurrences(lts, lt) == {j \in 1..Len(lts) : lts[j] = lt}

\* C1: a simulate_safety_stock call that returns, on a simulation with N
\* iterations, returns exactly N * len(lead_times) rows: for every iteration
\* index i in 0..N-1 and every entry of lead_times exactly one row carrying
\* that entry as lead_time and i as iteration, and no other row.
C1_OneRowPerPair ==
    SimReturned =>
        LET rows == ret.value
            N == sim[1].iterations
            lts == ret.lead_times
        IN  /\ Len(rows) = N * Len(lts)
            /\ \A k \in 1..Len(rows) : rows[k].iteration \in 0..(N - 1)
            /\ \A it \in 0..(N - 1), lt \in LeadTimeArgs :
                   Cardinality(RowsOf(rows, it, lt)) = Cardinality(Occurrences(lts, lt))

C1_Witness ==
    /\ SimReturned
    /\ sim[1].iterations = 2
    /\ ret.lead_times = <<1, 2>>
    /\ Len(ret.value) = 4

\* The demand history the i-th iteration (i from 0) of the last simulation
\* call draws, written from the stream: `days` normals starting i * days
\* after the stream position the call began at, scaled and floored at zero.
HistoryOfIteration(i) ==
    LET g == gen[sim[1].demand_generator][1]
        days == ret.simulation_days
    IN  [k \in 1..days |->
            LET v == g.mean + g.std_dev * Gauss(ret.rng0.seed, ret.rng0.pos + i * days + k)
            IN  IF v < 0 THEN 0 ELSE v]

\* C2: in a simulate_safety_stock call that returns, every row of iteration i
\* has safety_stock = (coverage_days + lead_time) * mean(D_i) for the one
\* history D_i drawn for iteration i, and the call advances the random stream
\* by exactly iterations * simulation_days normals, whatever len(lead_times).
C2_SharedHistory ==
    SimReturned =>
        LET rows == ret.value
        IN  /\ \A k \in 1..Len(rows) :
                   rows[k].safety_stock =
                       RMulInt(ret.coverage_days + rows[k].lead_time,
                               mean(HistoryOfIteration(rows[k].iteration)))
            /\ rng = [seed |-> ret.rng0.seed,
                      pos |-> ret.rng0.pos + sim[1].iterations * ret.simulation_days]

C2_Witness ==
    /\ SimReturned
    /\ sim[1].iterations = 2
    /\ ret.simulation_days = 2
    /\ Len(ret.lead_times) = 2
    /\ mean(HistoryOfIteration(0)) # mean(HistoryOfIteration(1))
    /\ ret.value[1].safety_stock # ret.value[3].safety_stock

\* C3: for every days > 0 and every configured mean and std_dev,
\* generate_daily_demand(days) returns exactly `days` values, every value
\* >= 0, and consumes exactly `days` draws of the random stream.
C3_DaysNonNegativeValues ==
    (ret.op = "generate_daily_demand" /\ ret.days > 0) =>
        /\ ret.outcome = "ok"
        /\ Len(ret.value) = ret.days
        /\ \A k \in 1..Len(ret.value) : ret.value[k] >= 0
        /\ rng = [seed |-> ret.rng0.seed, pos |-> ret.rng0.pos + ret.days]

\* The demand a generator draws as its next n values from stream state r.
DrawnFrom(g, n, r) ==
    [k \in 1..n |->
        LET v == gen[g][1].mean + gen[g][1].std_dev * Gauss(r.seed, r.pos + k)
        IN  IF v < 0 THEN 0 ELSE v]

\* C4: a calculate_safety_stock call that returns gives coverage_days *
\* mean(demand_history) and draws nothing when demand_history is supplied;
\* otherwise it draws `days` days of demand, 30 when days is not given, and
\* gives coverage_days * mean of that draw.
C4_SafetyStockValue ==
    (ret.op = "calculate_safety_stock" /\ ret.outcome = "ok") =>
        IF ret.demand_history # None
        THEN /\ ret.value = RMulInt(ret.coverage_days, mean(ret.demand_history[1]))
             /\ rng = ret.rng0
        ELSE LET n == IF ret.days = None THEN 30 ELSE ret.days[1]
             IN  /\ rng = [seed |-> ret.rng0.seed, pos |-> ret.rng0.pos + n]
                 /\ ret.value = RMulInt(ret.coverage_days, mean(DrawnFrom(ret.g, n, ret.rng0)))

SameConstruction(a, b) ==
    /\ a # b
    /\ gen[a] # None
    /\ gen[b] # None
    /\ gen[a] = gen[b]
    /\ gen[a][1].seed # None

\* C5: two generators constructed with the same mean, std_dev and seed return
\* the same values from their k-th generate_daily_demand(d) calls, however the
\* constructions and the calls are interleaved.
C5_SameSeedSameSequence ==
    \A a \in Generators, b \in Generators :
        SameConstruction(a, b) =>
            \A k \in 1..MaxCalls :
                (/\ k <= Len(calls[a])
                 /\ k <= Len(calls[b])
                 /\ \A j \in 1..k : calls[a][j].days = calls[b][j].days)
                    => calls[a][k].value = calls[b][k].value

(****************************** the network ********************************)
HasEdge(u, v) == \E k \in 1..Len(graph.edges) : graph.edges[k].u = u /\ graph.edges[k].v = v
LeadTimeOf(u, v) ==
    (CHOOSE e \in {graph.edges[k] : k \in 1..Len(graph.edges)} : e.u = u /\ e.v = v).lead_time

\* The directed walks of exactly h edges from s to t.
WalksOfHops(s, t, h) ==
    {w \in [1..(h + 1) -> NodeIds] :
        /\ w[1] = s
        /\ w[h + 1] = t
        /\ \A i \in 1..(h + 1) : graph.nodes[w[i]] # None
        /\ \A i \in 1..h : HasEdge(w[i], w[i + 1])}

MaxHops == Cardinality(NodeIds) - 1
Reachable(s, t) == \E h \in 0..MaxHops : WalksOfHops(s, t, h) # {}
HopDistance(s, t) ==
    CHOOSE h \in 0..MaxHops :
        WalksOfHops(s, t, h) # {} /\ \A h2 \in 0..(h - 1) : WalksOfHops(s, t, h2) = {}

RECURSIVE WalkLeadTime(_)
WalkLeadTime(w) ==
    IF Len(w) <= 1 THEN 0 ELSE LeadTimeOf(w[1], w[2]) + WalkLeadTime(Tail(w))

PathQueried == ret.op = "get_path_lead_time"

\* C6: when target is reachable from source, get_path_lead_time returns the
\* sum of the lead_time attributes along a directed path from source to
\* target that has the minimum number of edges.
C6_HopMinimalLeadTime ==
    (PathQueried /\ Reachable(ret.source_id, ret.target_id)) =>
        /\ ret.outcome = "ok"
        /\ \E w \in WalksOfHops(ret.source_id, ret.target_id,
                                 HopDistance(ret.source_id, ret.target_id)) :
               ret.value = Some(WalkLeadTime(w))

\* The result exceeds the cumulative lead time of a path with more edges.
C6_Witness ==
    /\ PathQueried
    /\ ret.outcome = "ok"
    /\ \E h \in 0..MaxHops : \E w \in WalksOfHops(ret.source_id, ret.target_id, h) :
           WalkLeadTime(w) < ret.value[1]

Incident(e, node_id) == e.u = node_id \/ e.v = node_id

\* C8: a simulate_disruption(node_id, duration, r) call with valid arguments
\* that completes multiplies the capacity of every edge incident to node_id
\* (a self-loop included) that carries one by exactly (1 - r), once, and
\* leaves every other capacity and every lead_time unchanged.
C8_DeratesIncidentOnce ==
    [][(ret'.op = "simulate_disruption" /\ ret'.outcome = "ok") =>
          /\ Len(graph'.edges) = Len(graph.edges)
          /\ \A k \in 1..Len(graph.edges) :
                 LET e == graph.edges[k]
                     f == graph'.edges[k]
                 IN  /\ f.u = e.u /\ f.v = e.v /\ f.lead_time = e.lead_time
                     /\ f.capacity =
                            IF Incident(e, ret'.node_id) /\ e.capacity # None
                            THEN Some(RMul(e.capacity[1], ROneMinus(ret'.capacity_reduction)))
                            ELSE e.capacity]_vars

OutOfRange(r) == RLess(r, <<0, 1>>) \/ RLess(<<1, 1>>, r)

\* C9: simulate_disruption fails with a validation error when node_id is not
\* in the network or capacity_reduction is outside [0, 1], and then no edge
\* has changed; 0 and 1 themselves are accepted.
C9_DisruptionValidation ==
    [][ret'.op = "simulate_disruption" =>
          IF nodes[ret'.node_id] = None \/ OutOfRange(ret'.capacity_reduction)
          THEN ret'.outcome = "ValueError" /\ graph' = graph /\ nodes' = nodes
          ELSE ret'.outcome # "ValueError"]_vars

\* A call with a reduction out of range was rejected on a node that has an
\* edge with a capacity.
C9_Witness ==
    /\ ret.op = "simulate_disruption"
    /\ ret.outcome = "ValueError"
    /\ nodes[ret.node_id] # None
    /\ \E k \in 1..Len(graph.edges) :
           Incident(graph.edges[k], ret.node_id) /\ graph.edges[k].capacity # None

\* C10: add_node of an id already present fails with the duplicate-node
\* error and leaves the node mapping, the graph nodes and the edges as they were.
C10_DuplicateNodeRejected ==
    [][(ret'.op = "add_node" /\ nodes[ret'.node.node_id] # None) =>
          /\ ret'.outcome = "ValueError"
          /\ ret'.error = "Node already exists"
          /\ nodes' = nodes
          /\ graph' = graph]_vars

\* A second node object with the id of a node that has an edge was rejected.
C10_Witness ==
    /\ ret.op = "add_node"
    /\ ret.outcome = "ValueError"
    /\ nodes[ret.node.node_id] # Some(ret.node.node_type)
    /\ \E k \in 1..Len(graph.edges) : Incident(graph.edges[k], ret.node.node_id)

\* C11: add_edge fails with a validation error when source_id or target_id
\* is not a key of the node mapping or when lead_time <= 0, and a rejected
\* add_edge leaves the graph as it was: no node and no edge is added, no
\* lead_time and no capacity of an existing edge changes.
C11_RejectedEdgeNoChange ==
    [][ret'.op = "add_edge" =>
          /\ (nodes[ret'.source_id] = None \/ nodes[ret'.target_id] = None
                  \/ ret'.lead_time <= 0) => ret'.outcome = "ValueError"
          /\ ret'.outcome = "ValueError" => (graph' = graph /\ nodes' = nodes)]_vars

\* An edge with a lead time <= 0 was rejected between two nodes that already
\* have an edge.
C11_Witness ==
    /\ ret.op = "add_edge"
    /\ ret.outcome = "ValueError"
    /\ ret.lead_time <= 0
    /\ HasEdge(ret.source_id, ret.target_id)
    /\ LeadTimeOf(ret.source_id, ret.target_id) > 0

\* C12: after any sequence of add_node, add_edge, get_path_lead_time and
\* simulate_disruption calls, successful or failing, the graph's nodes are
\* exactly the keys of the node mapping, both ends of every edge are among
\* them, and every edge has lead_time > 0.
C12_GraphMatchesMapping ==
    /\ \A id \in NodeIds : (graph.nodes[id] # None) <=> (nodes[id] # None)
    /\ \A k \in 1..Len(graph.edges) :
           /\ nodes[graph.edges[k].u] # None
           /\ nodes[graph.edges[k].v] # None
           /\ graph.edges[k].lead_time > 0

\* After a disruption, an edge to a node that is not in the mapping was
\* rejected on a network that has edges.
C12_Witness ==
    /\ disruptions > 0
    /\ Len(graph.edges) >= 2
    /\ ret.op = "add_edge"
    /\ ret.outcome = "ValueError"
    /\ nodes[ret.target_id] = None

(******************************** the node *********************************)
\* The quantities of a sequence of orders, summed.
TotalQuantity(orders) == Sum([k \in 1..Len(orders) |-> orders[k][1]])
Due(orders, t) == SelectSeq(orders, LAMBDA o : o[2] <= t)
NotDue(orders, t) == SelectSeq(orders, LAMBDA o : o[2] > t)

\* C13: receive_orders(current_time) adds to inventory_level the quantity of
\* every pending order with arrival_time <= current_time, removes exactly
\* those orders from pending, returns the total quantity moved by this call,
\* and leaves the orders with arrival_time > current_time pending, unchanged
\* and in their order.
C13_ReceiveMovesDueOrders ==
    [][ret'.op = "receive_orders" =>
          /\ inventory_level' =
                 inventory_level + TotalQuantity(Due(pending_orders, ret'.current_time))
          /\ ret'.value = TotalQuantity(Due(pending_orders, ret'.current_time))
          /\ pending_orders' = NotDue(pending_orders, ret'.current_time)]_vars

\* A call has credited an order onto an inventory that was not empty and has
\* left an order that is not due yet.
C13_Witness ==
    /\ ret.op = "receive_orders"
    /\ ret.value > 0
    /\ inventory_level > ret.value
    /\ pending_orders # <<>>

\* C14: every accepted order is credited to inventory_level exactly once, by
\* the first receive_orders call whose current_time is >= its arrival_time:
\* what was placed is at all times either still pending or in the inventory
\* once, a receive_orders(t) call leaves no order with arrival_time <= t
\* pending, and a receive_orders call that repeats the current_time of the
\* call just before it returns 0 and changes neither inventory nor pending.
C14_CreditedExactlyOnce ==
    /\ [](inventory_level + TotalQuantity(pending_orders) = TotalQuantity(placed))
    /\ [][ret'.op = "receive_orders" =>
             /\ Due(pending_orders', ret'.current_time) = <<>>
             /\ inventory_level' - inventory_level =
                    TotalQuantity(Due(pending_orders, ret'.current_time))
             /\ (ret.op = "receive_orders" /\ ret.current_time = ret'.current_time) =>
                    /\ ret'.value = 0
                    /\ inventory_level' = inventory_level
                    /\ pending_orders' = pending_orders]_vars

\* A receive_orders call was repeated with the same current_time after it
\* had credited orders, with another order still pending.
C14_Witness ==
    /\ ret.op = "receive_orders"
    /\ ret.value = 0
    /\ inventory_level >= 2
    /\ Len(placed) = 3
    /\ Len(pending_orders) = 1
    /\ pending_orders[1][2] > ret.current_time

\* C15: place_order(quantity, arrival_time) fails with a validation error
\* when quantity <= 0 and then leaves pending_orders and inventory_level as
\* they were; otherwise it appends exactly the order (quantity,
\* arrival_time) to pending_orders and changes nothing else.
C15_PlaceOrderValidation ==
    [][ret'.op = "place_order" =>
          /\ inventory_level' = inventory_level
          /\ IF ret'.quantity <= 0
             THEN /\ ret'.outcome = "ValueError"
                  /\ pending_orders' = pending_orders
             ELSE /\ ret'.outcome = "ok"
                  /\ pending_orders' =
                         Append(pending_orders, <<ret'.quantity, ret'.arrival_time>>)]_vars

\* An order of quantity 0 was rejected on a node that holds inventory and a
\* pending order.
C15_Witness ==
    /\ ret.op = "place_order"
    /\ ret.outcome = "ValueError"
    /\ ret.quantity = 0
    /\ inventory_level > 0
    /\ pending_orders # <<>>

(************************* validation of the inputs ************************)
\* C16: simulate_safety_stock fails with a validation error, and returns no
\* result rows, when lead_times is empty or contains a negative lead time.
C16_BadLeadTimesRejected ==
    (/\ ret.op = "simulate_safety_stock"
     /\ \/ ret.lead_times = <<>>
        \/ \E j \in 1..Len(ret.lead_times) : ret.lead_times[j] < 0)
        => (ret.outcome = "ValueError" /\ ret.value = None)

\* C17: generate_daily_demand(days) fails with a validation error, and
\* returns no sequence, for days = 0 and for every negative days.
C17_NonPositiveDaysRejected ==
    (ret.op = "generate_daily_demand" /\ ret.days <= 0)
        => (ret.outcome = "ValueError" /\ ret.value = None)

\* C18: calculate_safety_stock fails with a validation error, and returns no
\* value, whenever coverage_days <= 0, the history supplied or generated.
C18_NonPositiveCoverageRejected ==
    (ret.op = "calculate_safety_stock" /\ ret.coverage_days <= 0)
        => (ret.outcome = "ValueError" /\ ret.value = None)

\* C19: construction enforces mean > 0 and std_dev >= 0, so that no
\* DemandGenerator with a negative mean or a negative std_dev exists.
C19_ValidAttributes ==
    \A g \in Generators :
        gen[g] # None => (gen[g][1].mean > 0 /\ gen[g][1].std_dev >= 0)

(********************* safety stock against lead time **********************)
ValidLeadTimes(lts) == lts # <<>> /\ \A j \in 1..Len(lts) : lts[j] >= 0

RECURSIVE StockSum(_, _)
StockSum(rows, lt) ==
    IF rows = <<>> THEN <<0, 1>>
    ELSE IF Head(rows).lead_time = lt
         THEN RAdd(Head(rows).safety_stock, StockSum(Tail(rows), lt))
         ELSE StockSum(Tail(rows), lt)

\* The mean safety_stock over the rows of lead time lt.
MeanStock(rows, lt) ==
    RDivInt(StockSum(rows, lt), Cardinality({k \in 1..Len(rows) : rows[k].lead_time = lt}))

LeadTimesOf(lts) == {lts[j] : j \in 1..Len(lts)}

SimValid == SimReturned /\ ret.coverage_days > 0 /\ ValidLeadTimes(ret.lead_times)

\* C20 as claimed: for coverage_days > 0 and valid lead_times every row
\* returned by simulate_safety_stock has safety_stock > 0, and for any two
\* lead times a < b of the run the mean safety_stock over the rows of b is
\* strictly greater than the mean over the rows of a.
C20_PositiveAndMonotonic ==
    SimValid =>
        LET rows == ret.value
        IN  /\ \A k \in 1..Len(rows) : RLess(<<0, 1>>, rows[k].safety_stock)
            /\ \A a \in LeadTimesOf(ret.lead_times), b \in LeadTimesOf(ret.lead_times) :
                   a < b => RLess(MeanStock(rows, a), MeanStock(rows, b))

\* C20 as amended: for coverage_days > 0, valid lead_times and
\* simulation_days >= 1 every row has safety_stock >= 0, and > 0 exactly
\* when the history of its iteration has a positive demand; for lead times
\* a < b the mean safety_stock of b is >= that of a, and strictly greater
\* exactly when some iteration's history has a positive demand. With
\* simulation_days = 0 every safety_stock is nan.
C20_NonNegativeAndMonotonic ==
    SimValid =>
        LET rows == ret.value
            N == sim[1].iterations
            SomeDemand == \E i \in 0..(N - 1) : mean(HistoryOfIteration(i)) # <<0, 1>>
        IN  IF ret.simulation_days = 0
            THEN \A k \in 1..Len(rows) : rows[k].safety_stock = NaN
            ELSE /\ \A k \in 1..Len(rows) :
                        /\ RLeq(<<0, 1>>, rows[k].safety_stock)
                        /\ RLess(<<0, 1>>, rows[k].safety_stock)
                               <=> mean(HistoryOfIteration(rows[k].iteration)) # <<0, 1>>
                 /\ \A a \in LeadTimesOf(ret.lead_times), b \in LeadTimesOf(ret.lead_times) :
                        a < b =>
                            /\ RLeq(MeanStock(rows, a), MeanStock(rows, b))
                            /\ RLess(MeanStock(rows, a), MeanStock(rows, b)) <=> SomeDemand

\* A run of two iterations, one with a history floored to zero and one with
\* demand, whose mean safety stock grows from lead time 1 to lead time 2.
C20_Witness ==
    /\ SimValid
    /\ sim[1].iterations = 2
    /\ ret.lead_times = <<1, 2>>
    /\ ret.simulation_days >= 1
    /\ \E k \in 1..Len(ret.value) : ret.value[k].safety_stock = <<0, 1>>
    /\ RLess(MeanStock(ret.value, 1), MeanStock(ret.value, 2))

\* C26: in every state reached by place_order and receive_orders calls,
\* rejected place_order calls included, inventory_level plus the quantities
\* pending equals the quantities of the accepted place_order calls, every
\* pending order has quantity > 0, and no call lowers inventory_level.
C26_OrderConservation ==
    /\ [](/\ inventory_level + TotalQuantity(pending_orders) = TotalQuantity(placed)
          /\ \A k \in 1..Len(pending_orders) : pending_orders[k][1] > 0)
    /\ [][inventory_level' >= inventory_level]_vars

\* A negative order was rejected on a node that has received two orders and
\* holds a third one pending.
C26_Witness ==
    /\ ret.op = "place_order"
    /\ ret.outcome = "ValueError"
    /\ ret.quantity < 0
    /\ Len(placed) = 3
    /\ Len(pending_orders) = 1
    /\ inventory_level = TotalQuantity(placed) - pending_orders[1][1]

(************************* disruptions and capacity ************************)
\* C23: simulate_disruption on an existing node with capacity_reduction in
\* [0, 1] completes without error also when an incident edge was added
\* without a capacity: that edge stays without one, every incident edge that
\* carries a capacity is derated, and the call never stops with an error
\* after having derated only some of the incident edges.
C23_NoCapacityTolerated ==
    [][(/\ ret'.op = "simulate_disruption"
        /\ nodes[ret'.node_id] # None
        /\ ~OutOfRange(ret'.capacity_reduction)) =>
          /\ ret'.outcome = "ok"
          /\ Len(graph'.edges) = Len(graph.edges)
          /\ \A k \in 1..Len(graph.edges) :
                 LET e == graph.edges[k]
                     f == graph'.edges[k]
                 IN  /\ e.capacity = None => f.capacity = None
                     /\ (e.capacity # None /\ Incident(e, ret'.node_id)) =>
                            /\ f.capacity # None
                            /\ RLeq(f.capacity[1], e.capacity[1])
                            /\ ret'.capacity_reduction # <<0, 1>> => f.capacity # e.capacity]_vars

\* The edges other than (u, v) are in graph' what they are in graph.
OtherEdgesKept(u, v) ==
    /\ Len(graph'.edges) >= Len(graph.edges)
    /\ \A k \in 1..Len(graph.edges) :
           (graph.edges[k].u # u \/ graph.edges[k].v # v) => graph'.edges[k] = graph.edges[k]

\* The call leaves the network as it would for every other duration.
SameForEveryDuration ==
    ret'.op = "simulate_disruption" =>
        \A d \in Durations :
            graph' = simulate_disruption(ret'.node_id, d, ret'.capacity_reduction).graph

C25_UnrelatedStreamsIndependent ==
    [][\A g \in Generators :
          (/\ gen[g] # None
           /\ ret'.op \in {"DemandGenerator", "generate_daily_demand"}
           /\ ret'.g # g) =>
              \A n \in 1..2 :
                  generate_daily_demand(g, n, rng').value
                      = generate_daily_demand(g, n, rng).value]_vars

(*********************** the statistics of the results *********************)
\* The comparisons of floats: false as soon as one side is nan.
FLeq(x, y) == x # NaN /\ y # NaN /\ RLeq(x, y)

\* The safety_stock values of the rows of lead time lt, and the lead times present.
ValuesOf(rows, lt) ==
    LET sel == SelectSeq(rows, LAMBDA r : r.lead_time = lt)
    IN  [k \in 1..Len(sel) |-> sel[k].safety_stock]
LeadTimesPresent(rows) == {rows[k].lead_time : k \in 1..Len(rows)}
HasNaN(vals) == \E k \in 1..Len(vals) : vals[k] = NaN
AllEqual(vals) == \A j, k \in 1..Len(vals) : vals[j] = vals[k]

\* m is the mean of vals; v is their sample variance (n - 1 in the divisor).
IsMeanOf(m, vals) == RMul(RInt(Len(vals)), m) = RSum(vals)
SquaredDeviations(vals, m) ==
    RSum([k \in 1..Len(vals) |-> RMul(RSub(vals[k], m), RSub(vals[k], m))])
IsVarianceOf(v, vals, m) == RMul(RInt(Len(vals) - 1), v) = SquaredDeviations(vals, m)

\* g = <<a, b, 2>> is 1.96 * sqrt(variance / n): a/b * n * (n - 1) * 625 = 2401 * sum of
\* squared deviations.
IsMarginOf(g, vals, m) ==
    /\ Len(g) = 3
    /\ RMul(<<g[1], g[2]>>, RInt(625 * Len(vals) * (Len(vals) - 1)))
           = RMul(<<2401, 1>>, SquaredDeviations(vals, m))

\* lo = a - sqrt(p) is below up = b + sqrt(q); false when a bound is nan.
BoundLess(lo, up) ==
    /\ lo # NaN
    /\ up # NaN
    /\ LET d == RSub(lo[1], up[1])
           sp == <<lo[3][1], lo[3][2]>>
           sq == <<up[3][1], up[3][2]>>
           l == RSub(RSub(RMul(d, d), sp), sq)
       IN  IF RLess(d, <<0, 1>>) THEN TRUE
           ELSE IF d = <<0, 1>> THEN sp # <<0, 1>> \/ sq # <<0, 1>>
           ELSE IF RLess(l, <<0, 1>>) THEN TRUE
           ELSE RLess(RMul(l, l), RMul(<<4, 1>>, RMul(sp, sq)))

IntervalsReturned == ret.op = "calculate_confidence_intervals"

AtMost(vals, x) == {k \in 1..Len(vals) : FLeq(vals[k], x)}
AtLeast(vals, x) == {k \in 1..Len(vals) : FLeq(x, vals[k])}

\* C22: analyze_results returns a mapping whose keys are exactly the distinct
\* lead_time values of the rows, each mapped to mean, std, min, max, median
\* and 95th_percentile of that lead time's safety_stock values only, with
\* min <= median <= max for every lead time.
C22_StatisticsPerLeadTime ==
    ret.op = "analyze_results" =>
        /\ ret.outcome = "ok"
        /\ DOMAIN ret.value = LeadTimesPresent(ret.simulation_results)
        /\ \A lt \in LeadTimesPresent(ret.simulation_results) :
               LET vals == ValuesOf(ret.simulation_results, lt)
                   st == ret.value[lt]
                   n == Len(vals)
               IN  /\ IsMeanOf(st.mean, vals)
                   /\ IF n < 2 THEN st.std = NaN
                      ELSE /\ Len(st.std) = 3
                           /\ IsVarianceOf(<<st.std[1], st.std[2]>>, vals, st.mean)
                   /\ \E k \in 1..n : vals[k] = st.min
                   /\ \E k \in 1..n : vals[k] = st.max
                   /\ \A k \in 1..n : FLeq(st.min, vals[k]) /\ FLeq(vals[k], st.max)
                   /\ 2 * Cardinality(AtMost(vals, st.median)) >= n
                   /\ 2 * Cardinality(AtLeast(vals, st.median)) >= n
                   /\ 20 * Cardinality(AtMost(vals, st.percentile_95)) >= 19 * (n - 1)
                   /\ Cardinality(AtLeast(vals, st.percentile_95)) >= 1
                   /\ FLeq(st.min, st.median)
                   /\ FLeq(st.median, st.max)

====
